---------------------------- MODULE Spec2Model ----------------------------
(***************************************************************************)
(* FuelWalletConnector (packages/fuel-wallet/src/FuelWalletConnector.ts):  *)
(* the page-side connector that relays JSON-RPC requests to the wallet     *)
(* agent over window.postMessage and routes the agent's responses and      *)
(* event notifications back to callers and subscribers.                    *)
(*                                                                         *)
(* One step of the model is one JavaScript task: a call of a public method *)
(* by the host page, the delivery of one window message to the connectors' *)
(* listeners, the expiry of one timer, or the completion of an awaited     *)
(* external operation.  Promise reactions (microtasks) run to completion   *)
(* inside the task that settles the promise, so they are part of the step. *)
(***************************************************************************)
EXTENDS Integers, Sequences, FiniteSets, TLC

(***************************************************************************)
(* Bounds of the model.                                                    *)
(***************************************************************************)
MaxReqs == 3
MaxInvs == 2
MaxSubs == 2
MaxEvents == 2

(***************************************************************************)
(* Constants of ./constants and ./types, and the window's origin.          *)
(***************************************************************************)
CONNECTOR_SCRIPT == "FuelConnectorScript"
CONTENT_SCRIPT_NAME == "FuelContentScript"
PageOrigin == "https://app.example"
OtherOrigin == "https://evil.example"
Origins == {PageOrigin, OtherOrigin}
MessageTypes == [request |-> "request", response |-> "response", event |-> "event"]
DefaultName == "Fuel Wallet"
OtherName == "Fuelet Wallet"
Names == {DefaultName, OtherName}
Conns == {"c1", "c2"}

(***************************************************************************)
(* JavaScript values, tagged by the result of typeof (null kept apart).    *)
(***************************************************************************)
Undefined == [t |-> "undefined"]
JSNull == [t |-> "null"]
JSBool(b) == [t |-> "boolean", b |-> b]
JSStr(s) == [t |-> "string", s |-> s]
JSObj(fields) == [t |-> "object", f |-> fields]
JSErr(kind, message) == [t |-> "error", kind |-> kind, message |-> message]
JSTrue == JSBool(TRUE)
JSFalse == JSBool(FALSE)
EmptyObj == JSObj(<<>>)
Tx == JSObj([type |-> JSStr(<<"0">>)])

typeof(v) ==
  CASE v.t = "null" -> "object"
    [] v.t = "error" -> "object"
    [] OTHER -> v.t

\* ToBoolean: the falsy values are undefined, null, false and the empty string.
Truthy(v) ==
  CASE v.t \in {"undefined", "null"} -> FALSE
    [] v.t = "boolean" -> v.b
    [] v.t = "string" -> v.s # <<>>
    [] OTHER -> TRUE


\* k in v, for an object v.
Has(v, k) == v.t = "object" /\ k \in DOMAIN v.f

\* v?.k: undefined for an absent property and for a value without properties.
Get(v, k) == IF Has(v, k) THEN v.f[k] ELSE Undefined

\* a || b
Or(a, b) == IF Truthy(a) THEN a ELSE b

\* String.prototype.trim; a string is the sequence of its characters.
WhiteSpace == {" ", "\t", "\n"}

RECURSIVE trimStart(_)
trimStart(s) ==
  IF s # <<>> /\ Head(s) \in WhiteSpace THEN trimStart(Tail(s)) ELSE s

RECURSIVE trimEnd(_)
trimEnd(s) ==
  IF s # <<>> /\ s[Len(s)] \in WhiteSpace
  THEN trimEnd(SubSeq(s, 1, Len(s) - 1))
  ELSE s

trim(s) == trimEnd(trimStart(s))

(***************************************************************************)
(* State.                                                                  *)
(*   name      connector -> its name ("" for an instance never built)      *)
(*   reqs      the requests issued so far; a request's id is its index     *)
(*             (createRequestId returns a fresh UUID on every call)        *)
(*   pending   connector -> ids in its JSONRPCClient's resolver table      *)
(*   posted    the messages handed to window.postMessage, in order         *)
(*   invs      the public-method calls made by the host page, in order,    *)
(*             each with the state of the promise it returned              *)
(*   subs      connector -> event names of its registered handlers, in     *)
(*             registration order (handler h is the h-th registered)       *)
(*   announced ids of the probes whose success dispatched the              *)
(*             FuelConnectorEventType window event, in order               *)
(*   missed    connector -> the event names of the tuples that arrived     *)
(*             while no handler was registered for them                    *)
(*   starts    connector -> number of 'start' tuples that have arrived in  *)
(*             event messages addressed to it                              *)
(*   emitted   handler invocations made by the last step, in order         *)
(*   threw     whether the last step ended in an uncaught exception        *)
(*   last      what the last step was                                      *)
(***************************************************************************)
VARIABLES name, reqs, pending, posted, invs, subs, announced, starts,
          missed, emitted, threw, last

vars == <<name, reqs, pending, posted, invs, subs, announced, starts,
          missed, emitted, threw, last>>

\* The part of the state a task's code reads and writes, threaded through
\* the operators below as a record.
Cur ==
  [reqs |-> reqs, pending |-> pending, posted |-> posted, invs |-> invs,
   announced |-> announced, emitted |-> <<>>, threw |-> FALSE]

Commit(S) ==
  /\ reqs' = S.reqs
  /\ pending' = S.pending
  /\ posted' = S.posted
  /\ invs' = S.invs
  /\ announced' = S.announced
  /\ emitted' = S.emitted
  /\ threw' = S.threw

Live == {c \in Conns : name[c] # ""}

(***************************************************************************)
(* Channel adapter: outbound.                                              *)
(***************************************************************************)
createRequestId(S) == Len(S.reqs) + 1

postMessage(S, message) == [S EXCEPT !.posted = Append(@, message)]

\* Variant: the request message is posted twice.
sendRequestTwice(S, c, request) ==
  LET message == [t |-> "object",
                  type |-> MessageTypes.request,
                  target |-> CONTENT_SCRIPT_NAME,
                  connectorName |-> name[c],
                  request |-> request]
  IN postMessage(postMessage(S, message), message)

\* Variant: every message is stamped with the default name.
sendRequestDefaultName(S, c, request) ==
  IF request = JSNull THEN S
  ELSE postMessage(S, [t |-> "object",
                       type |-> MessageTypes.request,
                       target |-> CONTENT_SCRIPT_NAME,
                       connectorName |-> DefaultName,
                       request |-> request])

sendRequest(S, c, request) ==
  IF request = JSNull THEN S
  ELSE postMessage(S, [t |-> "object",
                       type |-> MessageTypes.request,
                       target |-> CONTENT_SCRIPT_NAME,
                       connectorName |-> name[c],
                       request |-> request])

(***************************************************************************)
(* JSONRPCClient (json-rpc-2.0), as the connector uses it: request,        *)
(* timeout(delay).request and receive.                                     *)
(***************************************************************************)
PING_TIMEOUT == 800

\* requestAdvanced: record the resolver under the id, then send.  delay is
\* the timeout armed for the request, 0 when the call sets none.
requestAdvanced(S, c, id, method, params, delay, inv) ==
  LET S1 == [S EXCEPT
               !.reqs = Append(@, [owner |-> c, method |-> method,
                                   inv |-> inv, delay |-> delay,
                                   timer |-> IF delay > 0
                                             THEN "armed" ELSE "none",
                                   settlements |-> <<>>]),
               !.pending[c] = @ \cup {id}]
  IN sendRequest(S1, c, [t |-> "object", id |-> id, method |-> method,
                         params |-> params])

\* client.request(method, params)
clientRequest(S, c, method, params, inv) ==
  requestAdvanced(S, c, createRequestId(S), method, params, 0, inv)

\* client.timeout(delay).request(method, params)
clientTimeoutRequest(S, c, delay, method, params, inv) ==
  requestAdvanced(S, c, createRequestId(S), method, params, delay, inv)

\* requestWithID: what the request's promise does with the response it is
\* resolved with.
Outcome(response) ==
  IF response.result # Undefined /\ response.error = Undefined
  THEN [state |-> "fulfilled", value |-> response.result, how |-> "result"]
  ELSE IF response.result = Undefined /\ response.error # Undefined
  THEN [state |-> "rejected",
        value |-> JSErr("JSONRPCErrorException", response.error.message),
        how |-> "error"]
  ELSE [state |-> "rejected",
        value |-> JSErr("Error", "An unexpected error occurred"),
        how |-> "unexpected"]

\* createTimeoutJSONRPCErrorResponse
TimeoutResponse(id) ==
  [t |-> "object", id |-> id, result |-> Undefined,
   error |-> [t |-> "object", message |-> "Request timeout"]]

\* timeoutRequest's reactions: clearTimeout once the request has settled.
clearTimeout(S, id) ==
  IF S.reqs[id].timer = "armed"
  THEN [S EXCEPT !.reqs[id].timer = "cleared"]
  ELSE S


(***************************************************************************)
(* Connector facade: what each public method does with the outcome of its  *)
(* request (the code after the await).                                     *)
(***************************************************************************)
Fulfilled(v) == [state |-> "fulfilled", value |-> v]
Rejected(e) == [state |-> "rejected", value |-> e]

\* Variant: no try/catch around the request.
isConnectedNoCatch(outcome) ==
  [state |-> outcome.state, value |-> outcome.value]

\* Variant: the result of the request is dropped.
isConnectedAlwaysFalse(outcome) == Fulfilled(JSFalse)

isConnectedResult(outcome) ==
  IF outcome.state = "rejected" THEN Fulfilled(JSFalse)
  ELSE Fulfilled(outcome.value)

\* deserializeTransactionResponseJson (fuels)
deserializeTransactionResponseJson(json) ==
  [t |-> "TransactionResponse", id |-> json.f.id,
   providerCache |-> json.f.providerCache]

\* sendTransaction, after the awaited request.  'id' in null throws.
sendTransactionResult(outcome) ==
  IF outcome.state = "rejected" THEN Rejected(outcome.value)
  ELSE LET resp == outcome.value
       IN IF typeof(resp) = "object" /\ resp = JSNull
          THEN Rejected(JSErr("TypeError", "Cannot use 'in' operator"))
          ELSE IF /\ typeof(resp) = "object"
                  /\ Has(resp, "id") /\ Has(resp, "providerCache")
          THEN Fulfilled(deserializeTransactionResponseJson(resp))
          ELSE Fulfilled(Or(Get(resp, "id"), resp))

\* signTransaction, after the awaited request: JSON.parse throws on a
\* result that is not the text of a JSON value.
signTransactionResult(outcome) ==
  IF outcome.state = "rejected" THEN Rejected(outcome.value)
  ELSE IF outcome.value.t = "string" /\ "json" \in DOMAIN outcome.value
  THEN Fulfilled([t |-> "TransactionRequest", of |-> outcome.value.json,
                  transformed |-> FALSE])
  ELSE Rejected(JSErr("SyntaxError", "Unexpected token"))

\* currentAccount, after the awaited request: Address.fromDynamicInput
\* throws on a value that is not an address.
currentAccountResult(outcome) ==
  IF outcome.state = "rejected" THEN Rejected(outcome.value)
  ELSE IF ~Truthy(outcome.value) THEN Fulfilled(JSNull)
  ELSE IF outcome.value.t = "string"
  THEN Fulfilled([t |-> "string", s |-> outcome.value.s, checksum |-> TRUE])
  ELSE Rejected(JSErr("FuelError", "Unknown address format"))

\* hasABI, after the awaited getABI: !!abi
hasABIResult(outcome) ==
  IF outcome.state = "rejected" THEN Rejected(outcome.value)
  ELSE Fulfilled(JSBool(Truthy(outcome.value)))

\* Variant: every method treats a failed request as isConnected does.
FinishAsProbe(op, outcome) == isConnectedResult(outcome)

Finish(op, outcome) ==
  CASE op = "isConnected" -> isConnectedResult(outcome)
    [] op = "sendTransaction" -> sendTransactionResult(outcome)
    [] op = "signTransaction" -> signTransactionResult(outcome)
    [] op = "currentAccount" -> currentAccountResult(outcome)
    [] op = "hasABI" -> hasABIResult(outcome)
    [] OTHER -> [state |-> outcome.state, value |-> outcome.value]

(***************************************************************************)
(* setupConnector: the readiness probe and, on success, the announcement.  *)
(* The probe's request carries inv = 0: no public call stands behind it.   *)
(***************************************************************************)
\* Variant: the ping is requested without a timeout.
pingNoTimeout(S, c, inv) == clientRequest(S, c, "ping", EmptyObj, inv)

ping(S, c, inv) ==
  clientTimeoutRequest(S, c, PING_TIMEOUT, "ping", EmptyObj, inv)

setupConnector(S, c) == ping(S, c, 0)

\* Variant: the announcement is dispatched however the probe ended.
setupConnectorAnnounceAlways(S, id, outcome) ==
  [S EXCEPT !.announced = Append(@, id)]

\* Variant: the announcement is dispatched only for a truthy ping result.
setupConnectorAnnounceTruthy(S, id, outcome) ==
  IF outcome.state = "fulfilled" /\ Truthy(outcome.value)
  THEN [S EXCEPT !.announced = Append(@, id)]
  ELSE S

setupConnectorThen(S, id, outcome) ==
  IF outcome.state = "fulfilled"
  THEN [S EXCEPT !.announced = Append(@, id)]
  ELSE S

(***************************************************************************)
(* Settlement of a request: the resolver stored under the id is called     *)
(* with a response, and the promise reactions run.  A promise settles      *)
(* once: a later call of its resolver is recorded and changes nothing.     *)
(* A settlement records how it came about and the response the resolver    *)
(* was called with.                                                        *)
(***************************************************************************)
Continue(S, id, outcome) ==
  LET i == S.reqs[id].inv
  IN IF i = 0 THEN setupConnectorThen(S, id, outcome)
     ELSE LET r == Finish(S.invs[i].op, outcome)
          IN [S EXCEPT !.invs[i].state = r.state, !.invs[i].value = r.value]

resolve(S, id, response, how) ==
  LET first == S.reqs[id].settlements = <<>>
      S1 == [S EXCEPT !.reqs[id].settlements =
                        Append(@, [how |-> how, by |-> response])]
  IN IF first THEN Continue(clearTimeout(S1, id), id, Outcome(response))
     ELSE S1

\* client.receive(response)
receive(S, c, response) ==
  IF response = Undefined THEN [S EXCEPT !.threw = TRUE]
  ELSE IF response.id \in S.pending[c]
  THEN resolve([S EXCEPT !.pending[c] = @ \ {response.id}],
               response.id, response, Outcome(response).how)
  ELSE S

\* The callback of the timer armed by timeout(delay).
timeoutCallback(S, id) ==
  LET c == S.reqs[id].owner
      S1 == [S EXCEPT !.reqs[id].timer = "fired"]
  IN IF id \in S1.pending[c]
     THEN resolve([S1 EXCEPT !.pending[c] = @ \ {id}],
                  id, TimeoutResponse(id), "timeout")
     ELSE S1


\* event.k === v for the payload of a message and a defined value v: a
\* payload without the property k gives undefined, which is not v.
Is(event, k, v) == k \in DOMAIN event /\ event[k] = v

\* Whether evaluating the acceptance test raises a TypeError: the origin is
\* compared first, then event.type is read, which undefined and null do not
\* allow.
acceptMessageThrows(message) ==
  /\ message.origin = PageOrigin
  /\ message.data \in {Undefined, JSNull}

(***************************************************************************)
(* Channel adapter: inbound.  A MessageEvent is [origin, data]; data is    *)
(* the posted message.                                                     *)
(***************************************************************************)
\* Variant: the origin of the message is not examined.
acceptMessageNoOrigin(c, message) ==
  /\ ~Is(message.data, "type", MessageTypes.request)
  /\ Is(message.data, "connectorName", name[c])
  /\ Is(message.data, "target", CONNECTOR_SCRIPT)

\* Variant: neither the type nor the target of the message is examined.
acceptMessageNameOnly(c, message) ==
  /\ message.origin = PageOrigin
  /\ Is(message.data, "connectorName", name[c])

\* Variant: the connectorName of the message is not examined.
acceptMessageNoName(c, message) ==
  /\ message.origin = PageOrigin
  /\ ~Is(message.data, "type", MessageTypes.request)
  /\ Is(message.data, "target", CONNECTOR_SCRIPT)

acceptMessage(c, message) ==
  /\ message.origin = PageOrigin
  /\ ~Is(message.data, "type", MessageTypes.request)
  /\ Is(message.data, "connectorName", name[c])
  /\ Is(message.data, "target", CONNECTOR_SCRIPT)

\* Variant: the resolver of the request the response names is called
\* without consulting the client's table of pending requests.
onResponseNoLookup(S, c, message) ==
  LET r == message.response
  IN IF r.id \in 1..Len(S.reqs) /\ S.reqs[r.id].owner = c
     THEN resolve([S EXCEPT !.pending[c] = @ \ {r.id}], r.id, r,
                  Outcome(r).how)
     ELSE S

\* Variant: the response settles the oldest pending request, whatever id
\* it carries.
onResponseOldest(S, c, message) ==
  LET r == message.response
  IN IF S.pending[c] # {}
     THEN LET id == CHOOSE x \in S.pending[c] : \A y \in S.pending[c] : x <= y
          IN resolve([S EXCEPT !.pending[c] = @ \ {id}], id, r,
                     Outcome(r).how)
     ELSE S

onResponse(S, c, message) == receive(S, c, message.response)

\* The handlers registered for an event name, in registration order.
Listeners(c, event) ==
  SelectSeq([h \in 1..Len(subs[c]) |-> h], LAMBDA h : subs[c][h] = event)

\* EventEmitter.emit(event, ...params)
emit(S, c, event, params) ==
  LET L == Listeners(c, event)
  IN [S EXCEPT !.emitted = @ \o [k \in 1..Len(L) |->
                                   [conn |-> c, handler |-> L[k],
                                    event |-> event, params |-> params]]]

\* Variant: no event name is reserved, every tuple is emitted.
onEventDataNoReserved(S, c, eventData) ==
  emit(S, c, eventData.event, eventData.params)

\* Variant: a tuple is handed to the handlers of every event name.
onEventDataBroadcast(S, c, eventData) ==
  IF eventData.event = "start"
  THEN setupConnector(S, c)
  ELSE emit(emit(S, c, "start", eventData.params), c, "accounts",
            eventData.params)

\* Variant: a 'start' tuple drops the probes still pending before it
\* starts a new one.
onEventDataRestart(S, c, eventData) ==
  IF eventData.event = "start"
  THEN setupConnector([S EXCEPT !.pending[c] = {}], c)
  ELSE emit(S, c, eventData.event, eventData.params)

onEventData(S, c, eventData) ==
  IF eventData.event = "start"
  THEN setupConnector(S, c)
  ELSE emit(S, c, eventData.event, eventData.params)

\* Variant: the tuples are handled from the last to the first.
RECURSIVE forEachReversed(_, _, _)
forEachReversed(S, c, items) ==
  IF items = <<>> THEN S
  ELSE onEventData(forEachReversed(S, c, Tail(items)), c, Head(items))

RECURSIVE forEach(_, _, _)
forEach(S, c, items) ==
  IF items = <<>> THEN S
  ELSE forEach(onEventData(S, c, Head(items)), c, Tail(items))

onEvent(S, c, message) ==
  IF message.events = Undefined THEN [S EXCEPT !.threw = TRUE]
  ELSE forEach(S, c, message.events.items)

onCommunicationMessage(S, c, message) ==
  CASE message.type = MessageTypes.response -> onResponse(S, c, message)
    [] message.type = MessageTypes.event -> onEvent(S, c, message)
    [] OTHER -> S

onMessage(S, c, message) ==
  IF acceptMessageThrows(message) THEN [S EXCEPT !.threw = TRUE]
  ELSE IF ~acceptMessage(c, message) THEN S
  ELSE onCommunicationMessage(S, c, message.data)

\* The window dispatches a message event to the listener of every
\* connector built on it, in the order the listeners were added.
ConnOrder == <<"c1", "c2">>

RECURSIVE dispatchMessage(_, _, _)
dispatchMessage(S, message, k) ==
  IF k > Len(ConnOrder) THEN S
  ELSE dispatchMessage(IF ConnOrder[k] \in Live
                       THEN onMessage(S, ConnOrder[k], message)
                       ELSE S,
                       message, k + 1)


(***************************************************************************)
(* Public methods.  A call appends the promise it returns to invs and runs *)
(* the method up to its first suspension.                                  *)
(***************************************************************************)
PlainOps ==
  {"connect", "disconnect", "accounts", "assets", "currentNetwork", "networks"}

\* The JSON-RPC method a public method requests.
Method(op) ==
  CASE op = "getABI" -> "getAbi"
    [] op = "hasABI" -> "getAbi"
    [] op = "addABI" -> "addAbi"
    [] op = "currentNetwork" -> "network"
    [] op = "addAsset" -> "addAssets"
    [] OTHER -> op

\* The params of the requests with fixed params or params copied from the
\* arguments.
ContractId == JSStr(<<"0", "x", "c">>)
Abi == JSObj([functions |-> JSStr(<<"f">>)])
NetworkArgs == JSObj([chainId |-> JSStr(<<"0">>)])
Params(op, arg) ==
  CASE op = "version" ->
         JSObj([app |-> JSStr(<<"0", ".", "0", ".", "0">>),
                network |-> JSStr(<<"0", ".", "0", ".", "0">>)])
    [] op \in {"getABI", "hasABI"} -> JSObj([contractId |-> arg])
    [] op = "addABI" -> JSObj([abiMap |-> JSObj([contractId |-> arg])])
    [] op = "selectNetwork" -> JSObj([network |-> arg])
    [] OTHER -> EmptyObj

\* at: where a pending call is suspended ("request": on its request;
\* "onBeforeSend": on the caller's transform of the transaction).
NewInv(S, c, op, arg) ==
  [S EXCEPT !.invs = Append(@, [conn |-> c, op |-> op, arg |-> arg,
                                state |-> "pending", value |-> Undefined,
                                at |-> "request"])]

\* An async method throws: the promise it returned is rejected.
Throw(S, i, e) ==
  [S EXCEPT !.invs[i].state = "rejected", !.invs[i].value = e]

Address == JSStr(<<"0", "x", "a">>)

\* Variant: a string message is tested without being trimmed.
signMessageValidNoTrim(message) ==
  /\ ~(typeof(message) = "string" /\ ~Truthy(message))
  /\ ~(/\ typeof(message) = "object"
       /\ message # JSNull
       /\ ~Truthy(Get(message, "personalSign")))

signMessageValid(message) ==
  /\ ~(typeof(message) = "string" /\ ~Truthy(JSStr(trim(message.s))))
  /\ ~(/\ typeof(message) = "object"
       /\ message # JSNull
       /\ ~Truthy(Get(message, "personalSign")))

signMessage(S, c, i, message) ==
  IF ~signMessageValid(message)
  THEN Throw(S, i, JSErr("Error", "Message is required"))
  ELSE clientRequest(S, c, "signMessage",
                     JSObj([address |-> Address, message |-> message]), i)

\* Variant: only the first network of an asset is examined.
findFirst(networks, type) ==
  IF networks = <<>> THEN Undefined
  ELSE IF Head(networks).type = type THEN Head(networks)
  ELSE Undefined

\* asset.networks.find((n) => n.type === 'fuel')
RECURSIVE find(_, _)
find(networks, type) ==
  IF networks = <<>> THEN Undefined
  ELSE IF Head(networks).type = type THEN Head(networks)
  ELSE find(Tail(networks), type)

assetData(asset) ==
  LET fuelNetworkAsset == find(asset.networks, "fuel")
  IN [icon |-> asset.icon, networks |-> asset.networks,
      imageUrl |-> asset.icon, decimals |-> fuelNetworkAsset.decimals,
      assetId |-> fuelNetworkAsset.assetId]

\* assets.map throws at the first asset without a fuel network.
addAssets(S, c, i, assets) ==
  IF \E k \in 1..Len(assets) : find(assets[k].networks, "fuel") = Undefined
  THEN Throw(S, i, JSErr("Error", "Asset for Fuel Network not found!"))
  ELSE clientRequest(S, c, "addAssets",
                     JSObj([assets |-> [k \in 1..Len(assets) |->
                                          assetData(assets[k])]]), i)

addAsset(S, c, i, asset) == addAssets(S, c, i, <<asset>>)

\* transactionRequestify, the caller's onBeforeSend and JSON.stringify.
transactionRequestify(transaction) ==
  [t |-> "TransactionRequest", of |-> transaction, transformed |-> FALSE]

onBeforeSend(txRequest) == [txRequest EXCEPT !.transformed = TRUE]

stringify(v) == [t |-> "string", s |-> <<"{", "}">>, json |-> v]

sendTransactionRequest(S, c, i, txRequest) ==
  clientRequest(S, c, "sendTransaction",
                JSObj([address |-> Address,
                       transaction |-> stringify(txRequest),
                       returnTransactionResponse |-> JSTrue]), i)

signTransactionRequest(S, c, i, txRequest) ==
  clientRequest(S, c, "signTransaction",
                JSObj([address |-> Address,
                       transaction |-> stringify(txRequest)]), i)

transactionRequest(S, c, i, op, txRequest) ==
  IF op = "signTransaction" THEN signTransactionRequest(S, c, i, txRequest)
  ELSE sendTransactionRequest(S, c, i, txRequest)

\* Variant: the request is made without the preparation step.
signTransactionUnprepared(S, c, i, arg) ==
  signTransactionRequest(S, c, i, transactionRequestify(arg.transaction))

\* prepareTransactionRequest and the request that follows it.  A call
\* with an onBeforeSend waits for the transform's promise.
sendTransaction(S, c, i, arg) ==
  IF ~Truthy(arg.transaction)
  THEN Throw(S, i, JSErr("Error", "Transaction is required"))
  ELSE IF arg.onBeforeSend
  THEN [S EXCEPT !.invs[i].at = "onBeforeSend"]
  ELSE sendTransactionRequest(S, c, i, transactionRequestify(arg.transaction))

signTransaction(S, c, i, arg) ==
  IF ~Truthy(arg.transaction)
  THEN Throw(S, i, JSErr("Error", "Transaction is required"))
  ELSE IF arg.onBeforeSend
  THEN [S EXCEPT !.invs[i].at = "onBeforeSend"]
  ELSE signTransactionRequest(S, c, i, transactionRequestify(arg.transaction))

\* addNetwork: new Provider(networkUrl) throws on a url that cannot be
\* parsed; the params of the request are built, and the request made, only
\* when provider.getChain() has resolved.
ValidUrl(networkUrl) == networkUrl.t = "string" /\ networkUrl.s # <<>>

ChainName == JSStr(<<"c", "h", "a", "i", "n">>)
ChainError == JSErr("FuelError", "getChain failed")

addNetworkRequest(S, c, i, networkUrl) ==
  clientRequest(S, c, "addNetwork",
                JSObj([network |-> JSObj([url |-> networkUrl,
                                          name |-> ChainName])]), i)

\* Variant: the request is made while the chain lookup is under way.
addNetworkEager(S, c, i, networkUrl) ==
  addNetworkRequest([S EXCEPT !.invs[i].at = "getChain"], c, i, networkUrl)

addNetwork(S, c, i, networkUrl) ==
  IF ~ValidUrl(networkUrl)
  THEN Throw(S, i, JSErr("FuelError", "Invalid URL"))
  ELSE [S EXCEPT !.invs[i].at = "getChain"]

\* The transform's promise settles: the call goes on, or fails with the
\* transform's error.
resume(S, i, ok) ==
  LET inv == S.invs[i]
      S1 == [S EXCEPT !.invs[i].at = "request"]
  IN IF inv.at = "getChain"
     THEN IF ~ok THEN Throw(S, i, ChainError)
          ELSE addNetworkRequest(S1, inv.conn, i, inv.arg)
     ELSE IF ~ok THEN Throw(S, i, JSErr("Error", "onBeforeSend failed"))
          ELSE transactionRequest(S1, inv.conn, i, inv.op,
                                  onBeforeSend(transactionRequestify(
                                                 inv.arg.transaction)))


\* Variant: isConnected requests with the timeout of ping.
isConnectedWithTimeout(S, c, i) ==
  clientTimeoutRequest(S, c, PING_TIMEOUT, "isConnected", EmptyObj, i)

isConnected(S, c, i) == clientRequest(S, c, "isConnected", EmptyObj, i)

plainCall(S, c, op, i) == clientRequest(S, c, Method(op), EmptyObj, i)

\* version, getABI, hasABI (through getABI), addABI, selectNetwork,
\* currentAccount: one request whose params come from Params.
paramCall(S, c, op, arg, i) ==
  clientRequest(S, c, Method(op), Params(op, arg), i)

call(S, c, op, arg) ==
  LET i == Len(S.invs) + 1
      S1 == NewInv(S, c, op, arg)
  IN CASE op = "ping" -> ping(S1, c, i)
       [] op = "isConnected" -> isConnected(S1, c, i)
       [] op = "signMessage" -> signMessage(S1, c, i, arg)
       [] op = "addAssets" -> addAssets(S1, c, i, arg)
       [] op = "addAsset" -> addAsset(S1, c, i, arg)
       [] op = "sendTransaction" -> sendTransaction(S1, c, i, arg)
       [] op = "signTransaction" -> signTransaction(S1, c, i, arg)
       [] op = "addNetwork" -> addNetwork(S1, c, i, arg)
       [] op \in {"version", "getABI", "hasABI", "addABI", "selectNetwork",
                  "currentAccount"} -> paramCall(S1, c, op, arg, i)
       [] OTHER -> plainCall(S1, c, op, i)

(***************************************************************************)
(* Inbound messages the environment can post on the window.                *)
(***************************************************************************)
AgentError == [t |-> "object", message |-> "agent error"]
EventNames == {"start", "accounts"}
ParamLists == {<<>>, <<"p">>}

Response(id, result, error) ==
  [t |-> "object", id |-> id, result |-> result, error |-> error]

\* Responses with a result, with an error, and with neither.
Responses(ids, results) ==
  {Response(id, r, Undefined) : id \in ids, r \in results \cup {Undefined}}
  \cup {Response(id, Undefined, AgentError) : id \in ids}

\* Responses with both a result and an error.
BothResponses(ids, results) ==
  {Response(id, r, AgentError) : id \in ids, r \in results}

\* A 'start' tuple carries no params.
EventTuples(names) ==
  {[event |-> e, params |-> ps] : e \in names \ {"start"}, ps \in ParamLists}
  \cup {[event |-> e, params |-> <<>>] : e \in names \cap {"start"}}

EventLists(names, n) ==
  {[t |-> "array", items |-> es] : es \in UNION {[1..k -> EventTuples(names)] : k \in 0..n}}

ResponseData(cn, target, response) ==
  [t |-> "object", type |-> MessageTypes.response, connectorName |-> cn,
   target |-> target, response |-> response]

EventData(cn, target, events) ==
  [t |-> "object", type |-> MessageTypes.event, connectorName |-> cn,
   target |-> target, events |-> events]

OtherData(type, cn, target) ==
  [t |-> "object", type |-> type, connectorName |-> cn, target |-> target]

\* The message bodies with the given connectorName and target that carry
\* one of the given responses or event lists, or are of another type.
Datas(cn, target, responses, eventLists, types) ==
  {ResponseData(cn, target, r) : r \in responses}
  \cup {EventData(cn, target, es) : es \in eventLists}
  \cup {OtherData(ty, cn, target) : ty \in types}

\* What the wallet's content script can send to the connector named cn.
AgentMessages(cn, responses, eventLists, types) ==
  {[origin |-> PageOrigin, data |-> d] :
     d \in Datas(cn, CONNECTOR_SCRIPT, responses, eventLists, types)}

\* Messages from another origin, for another connector or for another
\* endpoint.
ForeignEnvelopes(cn) ==
  {e \in [origin : Origins, connectorName : Names,
          target : {CONNECTOR_SCRIPT, CONTENT_SCRIPT_NAME}] :
     e.origin # PageOrigin \/ e.connectorName # cn \/ e.target # CONNECTOR_SCRIPT}

ForeignMessages(cn, responses, eventLists, types) ==
  UNION {{[origin |-> e.origin, data |-> d] :
            d \in Datas(e.connectorName, e.target, responses, eventLists, types)} :
         e \in ForeignEnvelopes(cn)}

\* The id of the response a message carries, 0 when it carries none.
ResponseId(message) ==
  IF /\ message.data.type = MessageTypes.response
     /\ message.data.response # Undefined
  THEN message.data.response.id
  ELSE 0

\* The number of 'start' tuples a message carries: each one handled issues
\* a ping.
RECURSIVE CountStart(_)
CountStart(items) ==
  IF items = <<>> THEN 0
  ELSE (IF Head(items).event = "start" THEN 1 ELSE 0) + CountStart(Tail(items))


(***************************************************************************)
(* Construction.                                                           *)
(***************************************************************************)
Empty ==
  [reqs |-> <<>>, pending |-> [c \in Conns |-> {}], posted |-> <<>>,
   invs |-> <<>>, announced |-> <<>>, emitted |-> <<>>, threw |-> FALSE]

\* new FuelWalletConnector(name) in a browser: the listener is added and
\* the first readiness probe is sent.
RECURSIVE construct(_, _)
construct(S, k) ==
  IF k > Len(ConnOrder) THEN S
  ELSE construct(IF ConnOrder[k] \in Live THEN setupConnector(S, ConnOrder[k])
                 ELSE S, k + 1)

InitWith(names) ==
  /\ name = names
  /\ subs = [c \in Conns |-> <<>>]
  /\ last = [act |-> "new"]
  /\ starts = [c \in Conns |-> 0]
  /\ missed = [c \in Conns |-> {}]
  /\ LET S == construct(Empty, 1)
     IN /\ reqs = S.reqs
        /\ pending = S.pending
        /\ posted = S.posted
        /\ invs = S.invs
        /\ announced = S.announced
        /\ emitted = S.emitted
        /\ threw = S.threw

Init == InitWith([c \in Conns |-> IF c = "c1" THEN DefaultName ELSE ""])

(***************************************************************************)
(* Steps.                                                                  *)
(***************************************************************************)
\* The host page calls a public method.
Invoke(c, op, arg) ==
  /\ Len(invs) < MaxInvs
  /\ LET S == call(Cur, c, op, arg)
     IN /\ Len(S.reqs) <= MaxReqs
        /\ Commit(S)
  /\ last' = [act |-> "call"]
  /\ UNCHANGED <<name, subs, starts, missed>>

\* The promise a suspended call waits for settles.
Resume(i, ok) ==
  /\ i <= Len(invs)
  /\ invs[i].state = "pending"
  /\ invs[i].at # "request"
  /\ LET S == resume(Cur, i, ok)
     IN /\ Len(S.reqs) <= MaxReqs
        /\ Commit(S)
  /\ last' = [act |-> "resume", ok |-> ok]
  /\ UNCHANGED <<name, subs, starts, missed>>

\* The host page registers a handler: connector.on(event, handler).
On(c, event) ==
  /\ Len(subs[c]) < MaxSubs
  /\ subs' = [subs EXCEPT ![c] = Append(@, event)]
  /\ Commit(Cur)
  /\ last' = [act |-> "on"]
  /\ UNCHANGED <<name, starts, missed>>

\* Whether a message comes from the page's origin, names connector c and
\* targets the page-side endpoint.
Addressed(c, message) ==
  /\ c \in Live
  /\ message.origin = PageOrigin
  /\ Is(message.data, "connectorName", name[c])
  /\ Is(message.data, "target", CONNECTOR_SCRIPT)

\* The 'start' tuples of an event message addressed to connector c.
StartsFor(c, message) ==
  IF /\ Addressed(c, message)
     /\ Is(message.data, "type", MessageTypes.event)
     /\ message.data.events # Undefined
  THEN CountStart(message.data.events.items)
  ELSE 0

\* The event names, other than 'start', of the tuples of an event message
\* addressed to connector c for which no handler is registered.
MissedFor(c, message) ==
  IF /\ Addressed(c, message)
     /\ Is(message.data, "type", MessageTypes.event)
     /\ message.data.events # Undefined
  THEN {message.data.events.items[k].event :
          k \in {j \in 1..Len(message.data.events.items) :
                   /\ message.data.events.items[j].event # "start"
                   /\ Listeners(c, message.data.events.items[j].event) = <<>>}}
  ELSE {}

\* A message event is dispatched on the window.
Deliver(message, tag) ==
  /\ LET S == dispatchMessage(Cur, message, 1)
     IN /\ Len(S.reqs) <= MaxReqs
        /\ Commit(S)
  /\ last' = tag
  /\ starts' = [c \in Conns |-> starts[c] + StartsFor(c, message)]
  /\ missed' = [c \in Conns |-> missed[c] \cup MissedFor(c, message)]
  /\ UNCHANGED <<name, subs>>

\* hit: whether the response's id was pending when the message arrived.
AgentMessage(message) ==
  Deliver(message, [act |-> "agent", id |-> ResponseId(message),
                    hit |-> \E c \in Live : ResponseId(message) \in pending[c]])

\* A response or a message of another type from the agent.
AgentReply(message) == Deliver(message, [act |-> "reply"])

\* An event notification from the agent.
AgentEvents(message) ==
  Deliver(message, [act |-> "events", items |-> message.data.events.items])

\* Whether a message carries the id of a pending request or the name of an
\* event a handler is registered for.
Aimed(message) ==
  \/ \E c \in Live : ResponseId(message) \in pending[c]
  \/ /\ message.data.type = MessageTypes.event
     /\ \E c \in Live, k \in 1..Len(message.data.events.items) :
          Listeners(c, message.data.events.items[k].event) # <<>>

\* A message from another origin, for another connector or for another
\* endpoint.
ForeignMessage(message) ==
  Deliver(message, [act |-> "foreign", aimed |-> Aimed(message)])

\* A message from the agent to a page with two connectors; cn is the
\* connectorName it bears.
PairMessage(message) ==
  Deliver(message, [act |-> "pair", id |-> ResponseId(message),
                    cn |-> message.data.connectorName])

\* Any message event on the window; accepted: whether some connector's
\* acceptance test evaluates to true for it.
InboundMessage(message) ==
  Deliver(message, [act |-> "inbound",
                    accepted |-> /\ ~acceptMessageThrows(message)
                                 /\ \E c \in Live : acceptMessage(c, message)])

\* A message the connector posted comes back to the window's listeners.
OwnMessage(k) ==
  Deliver([origin |-> PageOrigin, data |-> posted[k]], [act |-> "own"])

\* The timer of a request expires.
Timeout(id) ==
  /\ id <= Len(reqs)
  /\ reqs[id].timer = "armed"
  /\ Commit(timeoutCallback(Cur, id))
  /\ last' = [act |-> "timeout"]
  /\ UNCHANGED <<name, subs, starts, missed>>

CoreOps == {"isConnected", "connect"}
CoreResults == {JSTrue, JSFalse}
CoreResponses == Responses(1..MaxReqs, CoreResults)
StartLists == EventLists({"start"}, 1)

Next ==
  \/ \E c \in Live, op \in CoreOps : Invoke(c, op, Undefined)
  \/ \E m \in AgentMessages(DefaultName, CoreResponses, StartLists, {}) :
       AgentMessage(m)
  \/ \E id \in 1..Len(reqs) : Timeout(id)

Spec == Init /\ [][Next]_vars

\* An armed timer expires unless it is cleared first; nothing obliges the
\* agent to answer or the host page to call.
TimerFairness == \A id \in 1..MaxReqs : WF_vars(Timeout(id))

LiveSpec == Init /\ [][Next]_vars /\ TimerFairness


(***************************************************************************)
(* The channel: handlers are registered, the agent answers the readiness   *)
(* probes and sends event notifications, and other scripts, frames and     *)
(* connectors post messages of every kind on the same window.              *)
(***************************************************************************)
ChannelResponses ==
  {Response(id, JSTrue, Undefined) : id \in 1..MaxReqs}
  \cup {Response(id, Undefined, AgentError) : id \in 1..MaxReqs}
ShortLists ==
  {[t |-> "array", items |-> <<[event |-> e, params |-> <<"p">>]>>] :
     e \in EventNames}
OtherTypes == {MessageTypes.request, "unknown"}

NextChannel ==
  \/ \E c \in Live : On(c, "accounts")
  \/ \E m \in AgentMessages(DefaultName, ChannelResponses, {}, OtherTypes) :
       AgentReply(m)
  \/ \E m \in AgentMessages(DefaultName, {}, ShortLists, {}) :
       AgentEvents(m)
  \/ \E m \in ForeignMessages(DefaultName, ChannelResponses, ShortLists,
                              OtherTypes) :
       ForeignMessage(m)
  \/ \E k \in 1..Len(posted) : OwnMessage(k)
  \/ \E id \in 1..Len(reqs) : Timeout(id)

SpecChannel == Init /\ [][NextChannel]_vars

(***************************************************************************)
(* The event router alone: handlers are registered and the agent sends     *)
(* event notifications of every shape.                                     *)
(***************************************************************************)
EventsLists == EventLists(EventNames, MaxEvents)

NextEvents ==
  \/ \E c \in Live, e \in EventNames : On(c, e)
  \/ \E m \in AgentMessages(DefaultName, {}, EventsLists, {}) :
       AgentEvents(m)
  \/ \E id \in 1..Len(reqs) : Timeout(id)

SpecEvents == Init /\ [][NextEvents]_vars

(***************************************************************************)
(* signMessage: the host page asks for signatures of messages of every     *)
(* shape and the agent answers.                                            *)
(***************************************************************************)
SignMessages ==
  {JSStr(<<>>), JSStr(<<" ">>), JSStr(<<"\t", " ">>), JSStr(<<" ", "a">>),
   JSStr(<<"a", " ">>), JSStr(<<"a">>),
   EmptyObj, JSObj([hash |-> JSStr(<<"a">>)]),
   JSObj([personalSign |-> JSStr(<<"a">>)]),
   JSObj([personalSign |-> JSStr(<<>>)]),
   JSNull, Undefined}
Signature == JSStr(<<"s", "i", "g">>)
SignResponses ==
  {Response(id, Signature, Undefined) : id \in 1..MaxReqs}
  \cup {Response(id, Undefined, AgentError) : id \in 1..MaxReqs}

NextSign ==
  \/ \E c \in Live, m \in SignMessages : Invoke(c, "signMessage", m)
  \/ \E m \in AgentMessages(DefaultName, SignResponses, {}, {}) :
       AgentReply(m)
  \/ \E id \in 1..Len(reqs) : Timeout(id)

SpecSign == Init /\ [][NextSign]_vars

(***************************************************************************)
(* addAssets and addAsset: the host page registers batches of assets with  *)
(* and without a network of type 'fuel'.                                   *)
(***************************************************************************)
MaxAssets == 2
FuelNetwork == [type |-> "fuel", decimals |-> 9, assetId |-> "0xf"]
EthNetwork == [type |-> "ethereum", decimals |-> 18, assetId |-> "0xe"]
Assets ==
  {[icon |-> "icon", networks |-> ns] :
     ns \in {<<EthNetwork>>, <<EthNetwork, FuelNetwork>>}}
AssetBatches == UNION {[1..n -> Assets] : n \in 0..MaxAssets}
AssetResponses ==
  {Response(id, JSTrue, Undefined) : id \in 1..MaxReqs}
  \cup {Response(id, Undefined, AgentError) : id \in 1..MaxReqs}

NextAssets ==
  \/ \E c \in Live, b \in AssetBatches : Invoke(c, "addAssets", b)
  \/ \E c \in Live, a \in Assets : Invoke(c, "addAsset", a)
  \/ \E m \in AgentMessages(DefaultName, AssetResponses, {}, {}) :
       AgentReply(m)
  \/ \E id \in 1..Len(reqs) : Timeout(id)

SpecAssets == Init /\ [][NextAssets]_vars

(***************************************************************************)
(* sendTransaction: the host page sends transactions, with and without a   *)
(* transform to apply first, and the agent answers with results of every   *)
(* shape.                                                                  *)
(***************************************************************************)
TxId == JSStr(<<"0", "x", "1">>)
ProviderCache == JSObj([consensusParametersTimestamp |-> JSStr(<<"1">>)])
TxResults ==
  {TxId, JSStr(<<>>),
   JSObj([id |-> TxId]), JSObj([id |-> JSStr(<<>>)]),
   JSObj([id |-> TxId, providerCache |-> ProviderCache]),
   JSObj([providerCache |-> ProviderCache]),
   EmptyObj, JSNull}
TxResponses == Responses(1..MaxReqs, TxResults)
TxArgs == [transaction : {Tx, Undefined}, onBeforeSend : BOOLEAN]

NextTx ==
  \/ \E c \in Live, a \in TxArgs : Invoke(c, "sendTransaction", a)
  \/ \E i \in 1..Len(invs), ok \in BOOLEAN : Resume(i, ok)
  \/ \E m \in AgentMessages(DefaultName, TxResponses, {}, {}) :
       AgentMessage(m)
  \/ \E id \in 1..Len(reqs) : Timeout(id)

SpecTx == Init /\ [][NextTx]_vars

(***************************************************************************)
(* Every public method: the host page calls the methods with arguments     *)
(* that pass validation, and the agent answers, or does not, with results, *)
(* with errors and with responses that carry both.                         *)
(***************************************************************************)
MaxCalls == 1
CallOps ==
  PlainOps \cup {"ping", "isConnected", "currentAccount", "signMessage",
                 "sendTransaction", "signTransaction", "addAsset",
                 "addAssets", "addABI", "getABI", "hasABI", "selectNetwork",
                 "addNetwork", "version"}
FuelAsset == [icon |-> "icon", networks |-> <<EthNetwork, FuelNetwork>>]
NetworkUrl == JSStr(<<"u", "r", "l">>)
CallArg(op) ==
  CASE op = "signMessage" -> JSStr(<<"a">>)
    [] op \in {"sendTransaction", "signTransaction"} ->
         [transaction |-> Tx, onBeforeSend |-> FALSE]
    [] op = "addAsset" -> FuelAsset
    [] op = "addAssets" -> <<FuelAsset>>
    [] op = "addABI" -> Abi
    [] op \in {"getABI", "hasABI"} -> ContractId
    [] op = "selectNetwork" -> NetworkArgs
    [] op = "addNetwork" -> NetworkUrl
    [] OTHER -> Undefined
CallResponses ==
  {Response(id, JSTrue, Undefined) : id \in 1..MaxReqs}
  \cup {Response(id, Undefined, AgentError) : id \in 1..MaxReqs}
  \cup BothResponses(1..MaxReqs, {JSTrue})

\* The host page calls a method while fewer than MaxCalls calls were made.
InvokeCall(c, op) ==
  /\ Len(invs) < MaxCalls
  /\ Invoke(c, op, CallArg(op))

NextCalls ==
  \/ \E c \in Live, op \in CallOps : InvokeCall(c, op)
  \/ \E i \in 1..Len(invs), ok \in BOOLEAN : Resume(i, ok)
  \/ \E m \in AgentMessages(DefaultName, CallResponses, {}, {}) :
       AgentReply(m)
  \/ \E id \in 1..Len(reqs) : Timeout(id)

SpecCalls == Init /\ [][NextCalls]_vars

(***************************************************************************)
(* The readiness probes alone: the agent answers them or not, asks for new *)
(* ones with 'start' events, and every armed timer expires unless it is    *)
(* cleared first.                                                          *)
(***************************************************************************)
NextProbe ==
  \/ \E m \in AgentMessages(DefaultName, CoreResponses, StartLists, {}) :
       AgentMessage(m)
  \/ \E id \in 1..Len(reqs) : Timeout(id)

SpecProbe == Init /\ [][NextProbe]_vars /\ TimerFairness

(***************************************************************************)
(* Two connectors on one page, with the same name or with different names: *)
(* handlers are registered, the agent answers and notifies either name,    *)
(* and the messages the connectors post come back to the window.           *)
(***************************************************************************)
\* Payloads that are absent or not an object.
MalformedPayloads == {Undefined, JSNull, JSStr(<<"h", "i">>)}

\* Well-formed messages from the agent, messages that bear the connector's
\* name and endpoint but lack the response or the event list, foreign
\* messages, and messages whose payload is absent or not an object.
InboundMessages ==
  AgentMessages(DefaultName, ChannelResponses \cup {Undefined},
                ShortLists \cup {Undefined}, OtherTypes)
  \cup ForeignMessages(DefaultName, ChannelResponses, ShortLists, OtherTypes)
  \cup {[origin |-> o, data |-> d] : o \in Origins, d \in MalformedPayloads}

NextInbound ==
  \/ \E c \in Live : On(c, "accounts")
  \/ \E m \in InboundMessages : InboundMessage(m)
  \/ \E id \in 1..Len(reqs) : Timeout(id)

SpecInbound == Init /\ [][NextInbound]_vars

\* The two transaction calls, with and without a transaction and an
\* onBeforeSend transform that succeeds or fails.
TxOps == {"sendTransaction", "signTransaction"}

NextPrepare ==
  \/ \E c \in Live, op \in TxOps, a \in TxArgs : Invoke(c, op, a)
  \/ \E i \in 1..Len(invs), ok \in BOOLEAN : Resume(i, ok)
  \/ \E m \in AgentMessages(DefaultName, ChannelResponses, {}, {}) :
       AgentReply(m)
  \/ \E id \in 1..Len(reqs) : Timeout(id)

SpecPrepare == Init /\ [][NextPrepare]_vars

PairNames ==
  {[c \in Conns |-> IF c = "c1" THEN DefaultName ELSE n] : n \in Names}
InitPair == \E names \in PairNames : InitWith(names)
PairResponses ==
  {Response(id, JSTrue, Undefined) : id \in 1..MaxReqs}
  \cup {Response(id, Undefined, AgentError) : id \in 1..MaxReqs}

PairLists ==
  {[t |-> "array", items |-> <<[event |-> "accounts", params |-> <<"p">>]>>]}

NextPair ==
  \/ \E c \in Live : On(c, "accounts")
  \/ \E cn \in Names :
       \E m \in AgentMessages(cn, PairResponses, PairLists, {}) :
         PairMessage(m)
  \/ \E k \in 1..Len(posted) : OwnMessage(k)
  \/ \E id \in 1..Len(reqs) : Timeout(id)

SpecPair == InitPair /\ [][NextPair]_vars

(***************************************************************************)
(* Properties.                                                             *)
(***************************************************************************)
ReqIds == 1..Len(reqs)
InvIds == 1..Len(invs)
Settled(id) == reqs[id].settlements # <<>>
How(id) == reqs[id].settlements[1].how
By(id) == reqs[id].settlements[1].by
\* The requests issued on behalf of public call i.
ReqsOf(i) == {id \in ReqIds : reqs[id].inv = i}
\* The request messages posted with id.
PostsOf(id) == {k \in 1..Len(posted) : posted[k].request.id = id}

\* C1: the resolver of every request id is called at most once, whatever
\* responses, duplicate responses and timer expiries arrive: a request is
\* settled by a result response, by an error response or by its timeout,
\* never by two of them.
C1_AtMostOneSettlement ==
  \A id \in ReqIds :
    /\ Len(reqs[id].settlements) <= 1
    /\ Settled(id) => id \notin pending[reqs[id].owner]
    /\ (Settled(id) /\ How(id) = "timeout") => reqs[id].timer = "fired"
    /\ (Settled(id) /\ How(id) # "timeout") => reqs[id].timer # "fired"

\* A response for a request arrives after the request's timeout settled it.
C1_Witness ==
  \E id \in ReqIds :
    /\ Settled(id) /\ How(id) = "timeout"
    /\ last = [act |-> "agent", id |-> id, hit |-> FALSE]

\* C3: with several calls in flight, a response settles the caller whose
\* request carried the response's id, in whatever order responses arrive:
\* a call is settled only through its own request, by a response that
\* carries that request's id, and a call answered with a result holds the
\* result of that response.
C3_OwnResult ==
  /\ \A id \in ReqIds :
       (Settled(id) /\ How(id) # "timeout") => By(id).id = id
  /\ \A i \in InvIds :
       /\ invs[i].state # "pending" => \E id \in ReqsOf(i) : Settled(id)
       /\ \A id \in ReqsOf(i) :
            /\ \A k \in PostsOf(id) :
                 posted[k].request.method = Method(invs[i].op)
            /\ (Settled(id) /\ How(id) = "result") =>
                 (invs[i].state = "fulfilled" /\ invs[i].value = By(id).result)

\* Two calls with different methods, the second answered before the first,
\* hold different results.
C3_Witness ==
  /\ Len(invs) >= 2
  /\ invs[1].op = "connect" /\ invs[2].op = "isConnected"
  /\ invs[1].state = "fulfilled" /\ invs[2].state = "fulfilled"
  /\ invs[1].value = JSFalse /\ invs[2].value = JSTrue
  /\ \E id \in ReqsOf(1) : last = [act |-> "agent", id |-> id, hit |-> TRUE]

\* C4: isConnected never rejects: when its request fails, by an error
\* response, by a malformed response or by a timeout, it resolves to false.
C4_ProbeNeverRejects ==
  \A i \in InvIds :
    invs[i].op = "isConnected" =>
      /\ invs[i].state # "rejected"
      /\ \A id \in ReqsOf(i) :
           (Settled(id) /\ How(id) \in {"error", "unexpected", "timeout"}) =>
             (invs[i].state = "fulfilled" /\ invs[i].value = JSFalse)

\* An isConnected call whose request got an error response.
C4_Witness ==
  \E i \in InvIds :
    /\ invs[i].op = "isConnected"
    /\ \E id \in ReqsOf(i) : Settled(id) /\ How(id) = "error"
    /\ invs[i].state = "fulfilled" /\ invs[i].value = JSFalse

\* C6: isConnected resolves to the result of the response to its request;
\* with result true it resolves to true.
C6_ProbeResult ==
  \A i \in InvIds :
    invs[i].op = "isConnected" =>
      \A id \in ReqsOf(i) :
        (Settled(id) /\ How(id) = "result") =>
          (invs[i].state = "fulfilled" /\ invs[i].value = By(id).result)

\* An isConnected call answered with result true.
C6_Witness ==
  \E i \in InvIds :
    /\ invs[i].op = "isConnected"
    /\ \E id \in ReqsOf(i) :
         Settled(id) /\ How(id) = "result" /\ By(id).result = JSTrue
    /\ invs[i].state = "fulfilled" /\ invs[i].value = JSTrue

\* C5: an isConnected call settles, by resolving to false, once 800 ms
\* have passed without a reply: every isConnected call is eventually
\* settled.
C5_ProbeSettles ==
  \A i \in 1..MaxInvs :
    (i <= Len(invs) /\ invs[i].op = "isConnected")
      ~> (i <= Len(invs) /\ invs[i].state = "fulfilled"
                        /\ invs[i].value \in {JSTrue, JSFalse})


\* C2: a message whose origin is not the page's, whose connectorName is not
\* the connector's or whose target is not the page-side endpoint settles no
\* request, changes no pending table, invokes no handler and posts nothing,
\* whatever its type, response id or event list.
C2_ForeignIgnored ==
  [][last'.act = "foreign" =>
       /\ reqs' = reqs
       /\ pending' = pending
       /\ posted' = posted
       /\ announced' = announced
       /\ emitted' = <<>>
       /\ threw' = FALSE]_vars

\* Such a message arrived carrying the id of a pending request or an event
\* a handler is registered for, and the request is still pending.
C2_Witness ==
  /\ last = [act |-> "foreign", aimed |-> TRUE]
  /\ \E c \in Live : pending[c] # {} /\ subs[c] # <<>>

\* The readiness probes connector c has issued.
SetupPings(c) ==
  {id \in ReqIds : reqs[id].owner = c /\ reqs[id].method = "ping"
                                      /\ reqs[id].inv = 0}

\* C7: a 'start' tuple of an accepted event notification invokes no
\* handler, not even one registered for 'start', and each such tuple makes
\* the connector post one new ping: a connector has issued one ping at
\* construction and one for every 'start' tuple it was sent.
C7_StartReserved ==
  /\ \A k \in 1..Len(emitted) : emitted[k].event # "start"
  /\ \A c \in Live :
       /\ Cardinality(SetupPings(c)) = 1 + starts[c]
       /\ \A id \in SetupPings(c) :
            \E k \in PostsOf(id) : posted[k].request.method = "ping"

\* With handlers registered for 'start' and for another event, a
\* notification carrying both tuples arrived: only the other handler ran.
C7_Witness ==
  /\ last.act = "events"
  /\ \E k \in 1..Len(last.items) : last.items[k].event = "start"
  /\ \E c \in Live :
       /\ \E h \in 1..Len(subs[c]) : subs[c][h] = "start"
       /\ starts[c] >= 1
       /\ emitted # <<>>

\* The call a step has just started.
NewCall == Len(invs)
Called(ops) ==
  /\ last.act = "call"
  /\ invs # <<>>
  /\ invs[NewCall].op \in ops

\* An asset none of whose networks is of type 'fuel'.
NoFuel(asset) ==
  \A n \in 1..Len(asset.networks) : asset.networks[n].type # "fuel"
Batch(inv) == IF inv.op = "addAsset" THEN <<inv.arg>> ELSE inv.arg

\* C8: addAssets, and addAsset through it, called with a batch in which
\* some asset has no network of type 'fuel', wherever it sits, fails with
\* the validation error and posts no request; called with a batch in which
\* every asset has one, it posts exactly one addAssets request.
C8_AssetsValidated ==
  [][(Called({"addAssets", "addAsset"}))' =>
       LET i == Len(invs')
           batch == Batch(invs'[i])
       IN IF \E k \in 1..Len(batch) : NoFuel(batch[k])
          THEN /\ invs'[i].state = "rejected"
               /\ invs'[i].value =
                    JSErr("Error", "Asset for Fuel Network not found!")
               /\ posted' = posted
               /\ reqs' = reqs
               /\ pending' = pending
          ELSE /\ invs'[i].state = "pending"
               /\ Len(posted') = Len(posted) + 1
               /\ posted'[Len(posted')].request.method = "addAssets"
               /\ Len(posted'[Len(posted')].request.params.f.assets)
                    = Len(batch)]_vars

\* A batch of two assets whose second asset has no fuel network was
\* refused, after a batch of assets with fuel networks was posted.
C8_Witness ==
  /\ Called({"addAssets"})
  /\ Len(invs[NewCall].arg) = 2
  /\ ~NoFuel(invs[NewCall].arg[1]) /\ NoFuel(invs[NewCall].arg[2])
  /\ invs[NewCall].state = "rejected"
  /\ \E k \in 1..Len(posted) : posted[k].request.method = "addAssets"

\* A string of white space only, and an object without personalSign.
Blank(message) ==
  /\ typeof(message) = "string"
  /\ \A k \in 1..Len(message.s) : message.s[k] \in WhiteSpace
NoPersonalSign(message) ==
  /\ typeof(message) = "object"
  /\ message # JSNull
  /\ "personalSign" \notin DOMAIN message.f

\* C10: signMessage called with an empty or blank string, or with an
\* object without a personalSign field, fails with 'Message is required',
\* posts no request and leaves the table of pending requests unchanged.
C10_MessageRequired ==
  [][(/\ Called({"signMessage"})
      /\ Blank(invs[NewCall].arg) \/ NoPersonalSign(invs[NewCall].arg))' =>
       /\ invs'[Len(invs')].state = "rejected"
       /\ invs'[Len(invs')].value = JSErr("Error", "Message is required")
       /\ posted' = posted
       /\ reqs' = reqs
       /\ pending' = pending]_vars

\* A blank, non-empty string was refused while another signMessage call
\* was waiting for its response.
C10_Witness ==
  /\ Called({"signMessage"})
  /\ Blank(invs[NewCall].arg) /\ invs[NewCall].arg.s # <<>>
  /\ invs[NewCall].state = "rejected"
  /\ \E i \in InvIds : invs[i].state = "pending" /\ ReqsOf(i) # {}

\* C9: sendTransaction returns its result by shape: an object with both
\* an id and a providerCache as the transaction response rebuilt from it,
\* a string as that string, and an object with only an id as that id.
C9_ResultByShape ==
  \A i \in InvIds :
    invs[i].op = "sendTransaction" =>
      \A id \in ReqsOf(i) :
        (Settled(id) /\ How(id) = "result") =>
          LET r == By(id).result
          IN /\ (Has(r, "id") /\ Has(r, "providerCache")) =>
                  /\ invs[i].state = "fulfilled"
                  /\ invs[i].value = deserializeTransactionResponseJson(r)
             /\ typeof(r) = "string" =>
                  (invs[i].state = "fulfilled" /\ invs[i].value = r)
             /\ (r.t = "object" /\ DOMAIN r.f = {"id"}) =>
                  (invs[i].state = "fulfilled" /\ invs[i].value = r.f.id)

\* A message argument that is absent.
Missing(message) == message \in {Undefined, JSNull}

\* C11: signMessage called without a message, undefined or null, fails
\* validation and posts no request.
C11_MissingRefused ==
  [][(Called({"signMessage"}) /\ Missing(invs[NewCall].arg))' =>
       /\ invs'[Len(invs')].state = "rejected"
       /\ posted' = posted
       /\ reqs' = reqs]_vars

\* C12: for every public method but isConnected, a response that carries
\* an error rejects the call: the call never resolves on it, and when the
\* response carries the error alone the rejection carries the agent's
\* error message.
C12_ErrorPropagates ==
  \A i \in InvIds :
    invs[i].op # "isConnected" =>
      \A id \in ReqsOf(i) :
        /\ (Settled(id) /\ How(id) \in {"error", "unexpected"}) =>
             invs[i].state = "rejected"
        /\ (Settled(id) /\ How(id) = "error") =>
             invs[i].value =
               JSErr("JSONRPCErrorException", By(id).error.message)

\* A hasABI call was rejected with the agent's error.
C12_Witness ==
  \E i \in InvIds :
    /\ invs[i].op = "hasABI"
    /\ invs[i].state = "rejected"
    /\ invs[i].value = JSErr("JSONRPCErrorException", AgentError.message)
    /\ \E id \in ReqsOf(i) : Settled(id) /\ How(id) = "error"

\* C13: a call that passes validation posts exactly one request message,
\* and that request is never posted again, whether it is answered by a
\* result, by an error, by its timeout or not at all; a call still waiting
\* for something other than its request has posted none.  hasABI and
\* addAsset post the one request of getABI and of addAssets.
C13_OneRequest ==
  /\ Len(posted) = Len(reqs)
  /\ \A id \in ReqIds : Cardinality(PostsOf(id)) = 1
  /\ \A i \in InvIds :
       /\ Cardinality(ReqsOf(i)) = IF invs[i].at = "request" THEN 1 ELSE 0
       /\ \A id \in ReqsOf(i) :
            \A k \in PostsOf(id) :
              posted[k].request.method = Method(invs[i].op)

\* A hasABI call was rejected by an error response and its getAbi request
\* is still the only one posted for it.
C13_Witness ==
  /\ last.act = "reply"
  /\ \E i \in InvIds :
       /\ invs[i].op = "hasABI" /\ invs[i].state = "rejected"
       /\ \E id \in ReqsOf(i) :
            /\ How(id) = "error"
            /\ \E k \in PostsOf(id) : posted[k].request.method = "getAbi"

\* The announcements dispatched for readiness probe id.
AnnouncementsOf(id) == {k \in 1..Len(announced) : announced[k] = id}
AllSetupPings == UNION {SetupPings(c) : c \in Live}

\* C14: an announcement is dispatched only for a readiness probe that
\* succeeded, once, when its response arrives; a probe that fails, by its
\* timeout or by an error response, is followed by no announcement and by
\* no error: nothing is thrown and no call is affected.
C14_AnnounceOnSuccess ==
  /\ \A k \in 1..Len(announced) :
       /\ announced[k] \in AllSetupPings
       /\ Settled(announced[k]) /\ How(announced[k]) = "result"
  /\ \A id \in AllSetupPings :
       /\ Cardinality(AnnouncementsOf(id)) =
            IF Settled(id) /\ How(id) = "result" THEN 1 ELSE 0
       /\ \A i \in InvIds : id \notin ReqsOf(i)
  /\ threw = FALSE

\* The first probe timed out without an announcement; after a 'start'
\* event a second probe succeeded and was announced.
C14_Witness ==
  \E id1, id2 \in AllSetupPings :
    /\ id1 < id2
    /\ Settled(id1) /\ How(id1) = "timeout" /\ AnnouncementsOf(id1) = {}
    /\ Settled(id2) /\ How(id2) = "result" /\ announced = <<id2>>

\* The handler calls a tuple is owed: one for each handler registered for
\* its event name, in registration order, with the tuple's params.
RECURSIVE ExpectedHandlers(_, _, _)
ExpectedHandlers(c, tuple, h) ==
  IF h > Len(subs[c]) THEN <<>>
  ELSE (IF subs[c][h] = tuple.event
        THEN <<[conn |-> c, handler |-> h, event |-> tuple.event,
                params |-> tuple.params]>>
        ELSE <<>>) \o ExpectedHandlers(c, tuple, h + 1)

\* The handler calls a notification is owed: those of its tuples other
\* than 'start', in array order.
RECURSIVE ExpectedDispatch(_, _)
ExpectedDispatch(c, items) ==
  IF items = <<>> THEN <<>>
  ELSE (IF Head(items).event = "start" THEN <<>>
        ELSE ExpectedHandlers(c, Head(items), 1))
       \o ExpectedDispatch(c, Tail(items))

\* C15: the handler calls made for an accepted event notification are
\* those of its tuples in array order and, for each tuple, of the handlers
\* registered for its event name in registration order, with the tuple's
\* params; a 'start' tuple removes and reorders none of them.  Each
\* notification is dispatched whole when its message arrives.
C15_DispatchOrder ==
  last.act = "events" => emitted = ExpectedDispatch("c1", last.items)

\* Two tuples with different params were dispatched to two handlers: four
\* calls, tuple by tuple and handler by handler.
C15_Witness ==
  /\ last.act = "events"
  /\ Len(last.items) = 2
  /\ last.items[1].params # last.items[2].params
  /\ Len(emitted) = 4
  /\ emitted[1].params = last.items[1].params /\ emitted[1].handler = 1
  /\ emitted[2].params = last.items[1].params /\ emitted[2].handler = 2
  /\ emitted[3].params = last.items[2].params /\ emitted[3].handler = 1

\* C16: events are not buffered.  Registering a handler calls nothing,
\* whatever tuples arrived before; a handler is called only while a
\* notification is being delivered, only if it was registered before that
\* delivery, and only with a tuple of that notification that bears its
\* event name.
C16_NoBuffering ==
  [][/\ last'.act # "events" => emitted' = <<>>
     /\ last'.act = "events" =>
          \A k \in 1..Len(emitted') :
            /\ emitted'[k].handler <= Len(subs[emitted'[k].conn])
            /\ subs[emitted'[k].conn][emitted'[k].handler] = emitted'[k].event
            /\ \E j \in 1..Len(last'.items) :
                 /\ last'.items[j].event = emitted'[k].event
                 /\ last'.items[j].params = emitted'[k].params]_vars

\* A handler for 'accounts' has just been registered after an 'accounts'
\* tuple arrived and found no handler: the handler is not called.
C16_Witness ==
  /\ last.act = "on"
  /\ "accounts" \in missed["c1"]
  /\ subs["c1"] = <<"accounts">>
  /\ emitted = <<>>

\* C17: addNetwork posts its request only when the chain lookup for the
\* url has succeeded: a call whose lookup is under way or has failed has
\* posted nothing, a failed lookup rejects the call with the lookup's own
\* failure, and the request posted carries the name the lookup returned.
C17_LookupFirst ==
  \A i \in InvIds :
    invs[i].op = "addNetwork" =>
      /\ invs[i].at = "getChain" =>
           /\ ReqsOf(i) = {}
           /\ invs[i].state \in {"pending", "rejected"}
           /\ invs[i].state = "rejected" => invs[i].value = ChainError
      /\ \A id \in ReqsOf(i) :
           /\ invs[i].at = "request"
           /\ \A k \in PostsOf(id) :
                /\ posted[k].request.method = "addNetwork"
                /\ posted[k].request.params.f.network.f.name = ChainName

\* The lookup of an addNetwork call has just failed: the call is rejected
\* with the lookup's failure and no addNetwork request was posted.
C17_Witness ==
  /\ last.act = "resume"
  /\ \E i \in InvIds :
       /\ invs[i].op = "addNetwork"
       /\ invs[i].state = "rejected" /\ invs[i].value = ChainError
  /\ \A k \in 1..Len(posted) : posted[k].request.method # "addNetwork"

\* Request id is a readiness probe.
IsSetupPing(id) ==
  id <= Len(reqs) /\ reqs[id].method = "ping" /\ reqs[id].inv = 0

\* C18: every readiness probe ends: once its ping is posted, the ping is
\* eventually settled and removed from the pending table, by a response or,
\* if none comes, by its timer; and a ping that a response has settled is
\* left as it is by its timer, which never fires.
C18_ProbeEnds ==
  /\ \A id \in 1..MaxReqs :
       IsSetupPing(id) ~>
         (IsSetupPing(id) /\ Settled(id) /\ id \notin pending[reqs[id].owner])
  /\ [](\A id \in ReqIds :
          (IsSetupPing(id) /\ Settled(id) /\ How(id) # "timeout") =>
            /\ reqs[id].timer \notin {"armed", "fired"}
            /\ Len(reqs[id].settlements) = 1)

\* The timer of a readiness probe that got no response has just fired:
\* the probe is settled by its timeout and gone from the pending table.
C18_Witness ==
  /\ last.act = "timeout"
  /\ \E id \in ReqIds :
       /\ IsSetupPing(id)
       /\ Settled(id) /\ How(id) = "timeout"
       /\ id \notin pending[reqs[id].owner]
       /\ announced = <<>>

\* C19: an accepted response whose id is not pending, because it was never
\* issued, was already answered or was removed by its timeout, is ignored:
\* it settles no request and no call, leaves the pending tables as they
\* are, posts nothing, announces nothing and calls no handler.
C19_UnknownIdIgnored ==
  [][(last'.act = "agent" /\ last'.id # 0 /\ ~last'.hit) =>
       /\ reqs' = reqs
       /\ invs' = invs
       /\ pending' = pending
       /\ posted' = posted
       /\ announced' = announced
       /\ emitted' = <<>>
       /\ threw' = FALSE]_vars

\* A second response arrived for a request that a result had already
\* settled, while another request was pending.
C19_Witness ==
  /\ last.act = "agent" /\ last.id # 0 /\ ~last.hit
  /\ last.id <= Len(reqs)
  /\ Settled(last.id) /\ How(last.id) = "result"
  /\ \E c \in Live : pending[c] # {}

OwnEvent(k) == [origin |-> PageOrigin, data |-> posted[k]]

\* C21: a connector never consumes what it posts.  Every message posted is
\* refused by the acceptance predicate of every connector on the page, and
\* the arrival of a posted message settles nothing, changes no pending
\* table, posts nothing, announces nothing and calls no handler.
C21_OwnTrafficRefused ==
  [][/\ \A k \in 1..Len(posted), c \in Live : ~acceptMessage(c, OwnEvent(k))
     /\ last'.act = "own" =>
          /\ reqs' = reqs
          /\ pending' = pending
          /\ posted' = posted
          /\ announced' = announced
          /\ emitted' = <<>>
          /\ threw' = FALSE]_vars

\* With two connectors of the same name, each with a ping pending and a
\* handler registered, a posted request has just come back.
C21_Witness ==
  /\ last.act = "own"
  /\ name["c1"] = name["c2"]
  /\ \A c \in Conns : pending[c] # {} /\ subs[c] # <<>>

\* C22: handling a window message never raises an error, whatever the
\* message -- wrong origin, name or target, unknown type, a payload that is
\* absent or not an object -- and a message that fails acceptance settles no
\* request, changes no pending table, invokes no handler and posts nothing.
C22_HandlingNeverFails ==
  [][last'.act = "inbound" =>
       /\ threw' = FALSE
       /\ ~last'.accepted =>
            /\ reqs' = reqs /\ pending' = pending /\ posted' = posted
            /\ announced' = announced /\ emitted' = <<>>]_vars

\* What does hold: a message that fails acceptance changes nothing.
RefusedChangesNothing ==
  [][last'.act = "inbound" /\ ~last'.accepted =>
       /\ reqs' = reqs /\ pending' = pending /\ posted' = posted
       /\ announced' = announced /\ emitted' = <<>>]_vars


\* The transaction a posted request message carries.
PostedTransaction(k) == posted[k].request.params.f.transaction.json

\* C23: sendTransaction and signTransaction prepare the transaction before
\* anything is posted: a call without a transaction is rejected with
\* 'Transaction is required' and has no request; a call waiting for its
\* onBeforeSend has no request yet; the one request a call posts carries the
\* transformed transaction exactly when an onBeforeSend was given; and a
\* failing onBeforeSend rejects the call with that error and posts nothing.
C23_PreparedBeforePosting ==
  /\ [](\A i \in InvIds :
          invs[i].op \in TxOps =>
            /\ ~Truthy(invs[i].arg.transaction) =>
                 /\ invs[i].state = "rejected"
                 /\ invs[i].value = JSErr("Error", "Transaction is required")
                 /\ ReqsOf(i) = {}
            /\ invs[i].at = "onBeforeSend" => ReqsOf(i) = {}
            /\ Cardinality(ReqsOf(i)) <= 1
            /\ \A id \in ReqsOf(i) :
                 /\ PostsOf(id) # {}
                 /\ \A k \in PostsOf(id) :
                      /\ posted[k].request.method = invs[i].op
                      /\ PostedTransaction(k).of = invs[i].arg.transaction
                      /\ PostedTransaction(k).transformed
                           = invs[i].arg.onBeforeSend)
  /\ [][last'.act = "resume" =>
         \E i \in InvIds :
           /\ invs[i].at = "onBeforeSend" /\ invs[i].state = "pending"
           /\ IF last'.ok
              THEN /\ invs'[i].at = "request"
                   /\ Len(posted') = Len(posted) + 1
              ELSE /\ invs'[i].state = "rejected"
                   /\ invs'[i].value = JSErr("Error", "onBeforeSend failed")
                   /\ posted' = posted /\ reqs' = reqs]_vars

\* One call's onBeforeSend has failed and the other call has posted its
\* transformed transaction after waiting for the transform.
C23_Witness ==
  /\ last = [act |-> "resume", ok |-> TRUE]
  /\ \E i, j \in InvIds :
       /\ invs[i].op = "signTransaction" /\ invs[j].op = "sendTransaction"
       /\ invs[j].value = JSErr("Error", "onBeforeSend failed")
       /\ \E id \in ReqsOf(i), k \in 1..Len(posted) :
            /\ posted[k].request.id = id
            /\ PostedTransaction(k).transformed

(***************************************************************************)
(* Two connectors, the second under either name: public calls, responses   *)
(* and 'start' events for either name, and timer expiries.                 *)
(***************************************************************************)
NextIdentity ==
  \/ \E c \in Live : Invoke(c, "connect", Undefined)
  \/ \E cn \in Names :
       \E m \in AgentMessages(cn, PairResponses, StartLists, {}) :
         PairMessage(m)
  \/ \E id \in 1..Len(reqs) : Timeout(id)

SpecIdentity == InitPair /\ [][NextIdentity]_vars

\* C24: no step changes a connector's name, and every message ever posted
\* has type request, targets the agent-side endpoint and bears the name of
\* the connector that issued its request.
C24_IdentityFixed ==
  /\ [](\A k \in 1..Len(posted) :
          /\ posted[k].type = MessageTypes.request
          /\ posted[k].target = CONTENT_SCRIPT_NAME
          /\ posted[k].connectorName = name[reqs[posted[k].request.id].owner])
  /\ [][name' = name]_vars

\* The connector built under the other name has posted its construction
\* probe and the request of a public call, and a timer has expired.
C24_Witness ==
  /\ name["c2"] = OtherName
  /\ last.act = "timeout"
  /\ \E k \in 1..Len(posted) :
       /\ posted[k].connectorName = OtherName
       /\ reqs[posted[k].request.id].inv # 0

\* The requests issued by connector c.
OwnedBy(c) == {id \in ReqIds : reqs[id].owner = c}

\* C25: with two connectors on one window, a response bearing the id of a
\* request of one of them settles no request of the other and leaves the
\* other's pending table alone, whether the two have different names or the
\* same name; and an event message bearing one name invokes no handler of a
\* connector with another name.
C25_InstancesIsolated ==
  [][last'.act = "pair" =>
       \A b \in Live :
         /\ (last'.id \in ReqIds /\ last'.id \notin OwnedBy(b)) =>
              /\ pending'[b] = pending[b]
              /\ \A id \in OwnedBy(b) :
                   reqs'[id].settlements = reqs[id].settlements
         /\ last'.cn # name[b] =>
              \A k \in 1..Len(emitted') : emitted'[k].conn # b]_vars

\* Two connectors share a name; a response to a request of the first has
\* been accepted by both and has settled that request, and the request of
\* the second is still pending.
C25_Witness ==
  /\ last.act = "pair"
  /\ name["c1"] = name["c2"]
  /\ last.cn = name["c1"]
  /\ last.id \in OwnedBy("c1")
  /\ Settled(last.id) /\ How(last.id) = "result"
  /\ pending["c2"] # {} /\ pending["c1"] = {}
  /\ subs["c2"] # <<>>

\* The announcements dispatched for the readiness probes of connector c.
AnnouncedBy(c) == {k \in 1..Len(announced) : announced[k] \in SetupPings(c)}

\* C26: a connector has started one probe at construction and one for each
\* 'start' tuple it accepted; each probe is announced at most once, so the
\* announcements never outnumber the probes; and a 'start' tuple accepted
\* while earlier probes are pending adds one pending ping and leaves the
\* earlier ones pending, with their timers, as they were.
C26_ProbesOverlap ==
  /\ [](\A c \in Live :
          /\ Cardinality(SetupPings(c)) = 1 + starts[c]
          /\ \A id \in SetupPings(c) : Cardinality(AnnouncementsOf(id)) <= 1
          /\ Cardinality(AnnouncedBy(c)) <= 1 + starts[c])
  /\ [][\A c \in Live :
          starts'[c] > starts[c] =>
            /\ \A id \in SetupPings(c) :
                 /\ reqs'[id] = reqs[id]
                 /\ id \in pending[c] => id \in pending'[c]
            /\ Len(reqs') = Len(reqs) + (starts'[c] - starts[c])
            /\ \A id \in (Len(reqs) + 1)..Len(reqs') :
                 id \in pending'[c] /\ reqs'[id].timer = "armed"]_vars

\* A 'start' event has arrived while the probe of construction was
\* pending: two probes of the connector are pending together.
C26_Witness ==
  /\ last.act = "agent"
  /\ starts["c1"] >= 1
  /\ Cardinality(SetupPings("c1") \cap pending["c1"]) >= 2

(***************************************************************************)
(* The readiness probes answered with a result of any value or with an     *)
(* error.                                                                  *)
(***************************************************************************)
PingResults == {JSTrue, JSFalse, JSNull}
PingResponses ==
  {Response(id, r, Undefined) : id \in 1..MaxReqs, r \in PingResults}
  \cup {Response(id, Undefined, AgentError) : id \in 1..MaxReqs}

NextAnnounce ==
  \/ \E m \in AgentMessages(DefaultName, PingResponses, StartLists, {}) :
       AgentMessage(m)
  \/ \E id \in 1..Len(reqs) : Timeout(id)

SpecAnnounce == Init /\ [][NextAnnounce]_vars

\* C27: a readiness probe whose ping is answered with a result is announced
\* exactly once whatever the value of the result, false and null included;
\* a probe is left without an announcement only while it is pending, or
\* when it ended by an error response or by its timeout.
C27_AnnouncedWhateverResult ==
  \A id \in AllSetupPings :
    /\ (Settled(id) /\ How(id) = "result") =>
         /\ By(id).result \in PingResults
         /\ Cardinality(AnnouncementsOf(id)) = 1
    /\ AnnouncementsOf(id) = {} =>
         \/ ~Settled(id)
         \/ How(id) = "timeout"
         \/ How(id) = "error" /\ By(id).error # Undefined

\* A probe answered with null and a probe answered with false have both
\* been announced.
C27_Witness ==
  \E id1, id2 \in AllSetupPings :
    /\ Settled(id1) /\ By(id1).result = JSNull
    /\ Settled(id2) /\ By(id2).result = JSFalse
    /\ AnnouncementsOf(id1) # {} /\ AnnouncementsOf(id2) # {}

=============================================================================
